---- MODULE Spec2Model ----
(***************************************************************************)
(* Model of app.py: the paginated fetch of clinical-trial records          *)
(* (fetch_trials), the memoizing wrapper (fetch_trials_cached) and the     *)
(* page script that calls them.                                            *)
(***************************************************************************)
EXTENDS Integers, Sequences, FiniteSets, TLC

(***************************************************************************)
(* JSON values and Python objects.  Every value is a tagged record, so     *)
(* that values of different Python types can be compared.  None is JNull;  *)
(* an exception in flight is Raised(type).                                 *)
(***************************************************************************)
JNull == [t |-> "null"]
JStr(s) == [t |-> "str", v |-> s]
JNum(n) == [t |-> "num", v |-> n]
JObj(f) == [t |-> "obj", v |-> f]
JList(q) == [t |-> "list", v |-> q]
Raised(e) == [t |-> "raise", v |-> e]
EmptyDict == JObj(<<>>)

IsRaised(x) == x.t = "raise"

\* Mutant of Get: d.get(k) where d.get(k, default) is meant.
GetNoDefault(d, k, default) ==
    IF IsRaised(d) THEN d
    ELSE IF d.t = "obj"
         THEN IF k \in DOMAIN d.v THEN d.v[k] ELSE JNull
         ELSE Raised("AttributeError")

\* d.get(k, default): the value under k when d is a dict holding k (a JSON
\* null stored under k is returned as None, not replaced by the default),
\* the default when d is a dict without k, AttributeError when d is not a
\* dict.  An exception raised while evaluating d propagates.
Get(d, k, default) ==
    IF IsRaised(d) THEN d
    ELSE IF d.t = "obj"
         THEN IF k \in DOMAIN d.v THEN d.v[k] ELSE default
         ELSE Raised("AttributeError")

\* x[0]: the first element of a non-empty list, IndexError on an empty list,
\* KeyError on a dict (JSON keys are strings), TypeError on None or a number.
Index0(x) ==
    IF IsRaised(x) THEN x
    ELSE CASE x.t = "list" -> IF Len(x.v) = 0 THEN Raised("IndexError") ELSE x.v[1]
           [] x.t = "obj" -> Raised("KeyError")
           [] x.t \in {"null", "num"} -> Raised("TypeError")

\* The first exception in evaluation order, or JNull when nothing raised.
RECURSIVE FirstRaised(_)
FirstRaised(steps) ==
    IF steps = <<>> THEN JNull
    ELSE IF IsRaised(Head(steps)) THEN Head(steps)
    ELSE FirstRaised(Tail(steps))

\* The body of `for s in studies` (lines 46-62): the record appended for one
\* study entry, [t |-> "row", v |-> record], or the exception the body raises.
\* Statements and dict entries are evaluated in source order, so the first
\* failing sub-expression decides the exception.
ExtractRecord(s) ==
    LET protocol == Get(s, "protocolSection", EmptyDict)
        id_info == Get(protocol, "identificationModule", EmptyDict)
        status_module == Get(protocol, "statusModule", EmptyDict)
        sponsor_module == Get(protocol, "sponsorCollaboratorsModule", EmptyDict)
        design_module == Get(protocol, "designModule", EmptyDict)
        enrollment_info == Get(design_module, "enrollmentInfo", EmptyDict)
        fields == [NCT_ID |-> Get(id_info, "nctId", JNull),
                   Title |-> Get(id_info, "briefTitle", JNull),
                   Status |-> Get(status_module, "overallStatus", JNull),
                   Phase |-> Index0(Get(Get(design_module, "phaseList", EmptyDict),
                                        "phases", JList(<<JNull>>))),
                   Sponsor |-> Get(Get(sponsor_module, "leadSponsor", EmptyDict),
                                   "name", JNull),
                   Enrollment |-> Get(enrollment_info, "value", JNull),
                   StartDate |-> Get(Get(status_module, "startDateStruct", EmptyDict),
                                     "date", JNull),
                   CompletionDate |-> Get(Get(status_module, "completionDateStruct",
                                              EmptyDict), "date", JNull)]
        exc == FirstRaised(<<protocol, id_info, status_module, sponsor_module,
                             design_module, enrollment_info, fields.NCT_ID,
                             fields.Title, fields.Status, fields.Phase,
                             fields.Sponsor, fields.Enrollment, fields.StartDate,
                             fields.CompletionDate>>)
    IN  IF IsRaised(exc) THEN exc ELSE [t |-> "row", v |-> fields]

(***************************************************************************)
(* Study entries as the registry may deliver them.  Each of the ten        *)
(* intermediate objects of the extraction path is present ("ok"), absent   *)
(* from its parent ("absent") or a JSON null ("null"); the phase list is   *)
(* absent, null, empty, or a list of one or two phases.                    *)
(***************************************************************************)
Presence == {"ok", "absent", "null"}
PhasesShape == {"absent", "null", "empty", "one", "two"}

\* The JSON member k: val, k: null, or no member, as a dict fragment.
Member(k, how, val) ==
    CASE how = "ok" -> k :> val
      [] how = "null" -> k :> JNull
      [] how = "absent" -> <<>>

PhasesValue(how) ==
    CASE how = "one" -> JList(<<JStr("PHASE1")>>)
      [] how = "two" -> JList(<<JStr("PHASE2"), JStr("PHASE3")>>)
      [] how = "empty" -> JList(<<>>)
      [] OTHER -> JNull

PhasesHow(how) == IF how \in {"one", "two", "empty"} THEN "ok" ELSE how

StudyChoices ==
    [protocolSection : Presence, identificationModule : Presence,
     statusModule : Presence, sponsorCollaboratorsModule : Presence,
     leadSponsor : Presence, designModule : Presence, phaseList : Presence,
     phases : PhasesShape, enrollmentInfo : Presence,
     startDateStruct : Presence, completionDateStruct : Presence]

\* The study entry with registry identifier id built from the choices c.
MkStudy(id, c) ==
    JObj(Member("protocolSection", c.protocolSection, JObj(
        Member("identificationModule", c.identificationModule,
               JObj(("nctId" :> JStr(id)) @@ ("briefTitle" :> JStr("Title")))) @@
        Member("statusModule", c.statusModule, JObj(
            ("overallStatus" :> JStr("RECRUITING")) @@
            Member("startDateStruct", c.startDateStruct,
                   JObj("date" :> JStr("2020-01"))) @@
            Member("completionDateStruct", c.completionDateStruct,
                   JObj("date" :> JStr("2021-01"))))) @@
        Member("sponsorCollaboratorsModule", c.sponsorCollaboratorsModule, JObj(
            Member("leadSponsor", c.leadSponsor, JObj("name" :> JStr("Acme"))))) @@
        Member("designModule", c.designModule, JObj(
            Member("phaseList", c.phaseList, JObj(
                Member("phases", PhasesHow(c.phases), PhasesValue(c.phases)))) @@
            Member("enrollmentInfo", c.enrollmentInfo, JObj("value" :> JNum(40))))))))

AllOk == [protocolSection |-> "ok", identificationModule |-> "ok",
          statusModule |-> "ok", sponsorCollaboratorsModule |-> "ok",
          leadSponsor |-> "ok", designModule |-> "ok", phaseList |-> "ok",
          phases |-> "one", enrollmentInfo |-> "ok",
          startDateStruct |-> "ok", completionDateStruct |-> "ok"]

NoDesign == [AllOk EXCEPT !.designModule = "absent"]

\* Every study shape, for the extraction checks.
AllStudies == {MkStudy("A", c) : c \in StudyChoices}

(***************************************************************************)
(* Bounds of the model.                                                    *)
(***************************************************************************)
MaxBudget == 3      \* largest max_studies a direct call passes
MaxPageSize == 2    \* largest page_size a direct call passes
MaxPageLen == 3     \* most study entries the registry puts in one response
MaxUiPages == 1     \* most requests of one fetch under SpecUI
MaxTicks == 2       \* clock advances under SpecUI
TickStep == 1800    \* seconds per clock advance

\* Program constants.
UiMaxStudies == 1000   \* max_studies=1000 at lines 78 and 83
DefaultPageSize == 1000 \* page_size=1000, line 12
TTL == 3600            \* ttl=3600, line 80

Min(a, b) == IF a < b THEN a ELSE b
Max(a, b) == IF a > b THEN a ELSE b

\* Python truthiness of a JSON value (`if next_page_token`, `not next_page_token`).
Truthy(x) ==
    CASE x.t = "null" -> FALSE
      [] x.t = "str" -> x.v # ""
      [] x.t = "num" -> x.v # 0
      [] x.t = "list" -> Len(x.v) > 0
      [] x.t = "obj" -> DOMAIN x.v # {}

\* q[:n], Python slicing: the first n elements for n >= 0, all but the last
\* -n elements for n < 0.
\* Mutant of Slice: the slice at line 71 left out.
SliceAll(q, n) == q

Slice(q, n) ==
    IF n >= 0 THEN SubSeq(q, 1, Min(n, Len(q)))
    ELSE SubSeq(q, 1, Max(0, Len(q) + n))

(***************************************************************************)
(* Registry responses.  A response is a transport failure (requests.get    *)
(* raises), or an HTTP response with a status code and a body; the body is *)
(* a JSON value or BadJson (response.json() raises).                       *)
(***************************************************************************)
BadJson == [t |-> "badjson"]
TransportFailure == [kind |-> "transport", status |-> 0, body |-> JNull]
Http(status, body) == [kind |-> "http", status |-> status, body |-> body]

\* A JSON page: `studies` (how = "ok": the list; "absent": no member) and
\* nextPageToken (tokHow/tok likewise).
Page(studies, tokHow, tok) ==
    JObj(("studies" :> JList(studies)) @@ Member("nextPageToken", tokHow, JStr(tok)))
PageNoStudies(tokHow, tok) == JObj(Member("nextPageToken", tokHow, JStr(tok)))

RECURSIVE SeqsUpTo(_, _)
SeqsUpTo(S, n) ==
    IF n = 0 THEN {<<>>}
    ELSE LET shorter == SeqsUpTo(S, n - 1)
         IN  shorter \cup {Append(q, e) : q \in shorter, e \in S}

TokenChoices == {<<"absent", "">>, <<"null", "">>, <<"ok", "">>, <<"ok", "X">>, <<"ok", "Y">>}

\* The responses a registry serving the study entries S may give.
Responses(S, maxLen, statuses, tokens) ==
    {TransportFailure}
    \cup {Http(st, JNull) : st \in statuses \ {200}}
    \cup {Http(200, BadJson)}
    \cup {Http(200, Page(q, tk[1], tk[2])) : q \in SeqsUpTo(S, maxLen), tk \in tokens}
    \cup {Http(200, PageNoStudies(tk[1], tk[2])) : tk \in tokens}

(***************************************************************************)
(* What a response carried, read off the response itself.                  *)
(***************************************************************************)
IsPage(resp) == resp.kind = "http" /\ resp.status = 200 /\ resp.body.t = "obj"
StudiesOf(resp) ==
    IF "studies" \in DOMAIN resp.body.v THEN resp.body.v["studies"].v ELSE <<>>
HasCursor(resp) ==
    /\ "nextPageToken" \in DOMAIN resp.body.v
    /\ resp.body.v["nextPageToken"] \notin {JNull, JStr("")}
NoCursorMember(resp) ==
    \/ "nextPageToken" \notin DOMAIN resp.body.v
    \/ resp.body.v["nextPageToken"] = JNull

(***************************************************************************)
(* State.                                                                  *)
(***************************************************************************)
VARIABLES
    stack,            \* call stack, outermost first: "script", "cached", "fetch"
    line,             \* the page script's position (0: not running)
    disease_input,    \* line 9
    condition, max_studies, page_size,   \* arguments of the running fetch_trials
    all_records, next_page_token,        \* its locals, lines 23-24
    fpc,              \* its position: "while" (line 26), "get" (line 35), "return" (line 71)
    sent,             \* params of the requests it has issued
    got,              \* responses it has received
    delays,           \* time.sleep calls it has made
    ckey,             \* arguments of the last call of fetch_trials_cached
    cache,            \* the st.cache_data store of fetch_trials_cached
    now,              \* wall clock, seconds
    outcome,          \* what the last top-level call delivered
    stats,            \* fetch_trials calls and requests of the current top-level call
    fetched,          \* per key, the last table fetch_trials_cached computed, and when
    prior             \* fetched[key] as it was when the current top-level call began

fetchVars == <<condition, max_studies, page_size, all_records, next_page_token,
               fpc, sent, got, delays>>
vars == <<stack, line, disease_input, condition, max_studies, page_size,
          all_records, next_page_token, fpc, sent, got, delays, ckey, cache, now,
          outcome, stats, fetched, prior>>

Conditions == {"", "ALS"}
Key(c, n) == [c |-> c, n |-> n]
UiBudgets == {2, UiMaxStudies}
Keys == {Key(c, n) : c \in Conditions, n \in UiBudgets}

NoEntry == [present |-> FALSE, table |-> <<>>, at |-> 0]
Entry(table, at) == [present |-> TRUE, table |-> table, at |-> at]

\* What a top-level call delivered: a table returned, or an exception nothing
\* caught.  `via` is the outermost frame: "fetch" and "cached" for direct
\* calls of the two functions, "script" for a run of the page script.
NoOutcome == [kind |-> "none", via |-> "", rows |-> <<>>, exc |-> "", args |-> <<>>]
Returned(via, rows) == [kind |-> "return", via |-> via, rows |-> rows, exc |-> "", args |-> <<>>]
Uncaught(exc, args) == [kind |-> "raise", via |-> "", rows |-> <<>>, exc |-> exc, args |-> args]

Top == IF stack = <<>> THEN "" ELSE stack[Len(stack)]

\* The shape of the state: which frames can be on the stack, where each
\* frame can be, and what the fetch locals hold.
TypeOK ==
    /\ stack \in {<<>>, <<"fetch">>, <<"cached", "fetch">>, <<"script">>,
                  <<"script", "fetch">>, <<"script", "cached", "fetch">>}
    /\ line \in {0, 76, 78, 83}
    /\ disease_input \in Conditions
    /\ max_studies \in Int /\ page_size \in Nat
    /\ fpc \in {"none", "while", "get", "return", "returned", "raised"}
    /\ next_page_token.t \in {"null", "str"}
    /\ Len(got) <= Len(sent) /\ Len(sent) <= Len(got) + 1
    /\ delays \in Nat
    /\ now \in Nat
    /\ outcome.kind \in {"none", "return", "raise"}
    /\ outcome.via \in {"", "fetch", "cached", "script"}
    /\ DOMAIN cache = Keys /\ DOMAIN fetched = Keys
    /\ stats.fetches \in 0..2 /\ stats.requests \in Nat
    /\ prior.present \in BOOLEAN
    /\ ckey.n \in Nat

Init ==
    /\ stack = <<>>
    /\ line = 0
    /\ disease_input = "ALS"
    /\ condition = ""
    /\ max_studies = 0
    /\ page_size = 0
    /\ all_records = <<>>
    /\ next_page_token = JNull
    /\ fpc = "none"
    /\ sent = <<>>
    /\ got = <<>>
    /\ delays = 0
    /\ ckey = Key("", 0)
    /\ cache = [k \in Keys |-> NoEntry]
    /\ now = 0
    /\ outcome = NoOutcome
    /\ stats = [fetches |-> 0, requests |-> 0]
    /\ fetched = [k \in Keys |-> NoEntry]
    /\ prior = NoEntry

(***************************************************************************)
(* fetch_trials, lines 12-71.                                              *)
(***************************************************************************)
\* Entry into fetch_trials(c, n, ps): lines 22-24.
EnterFetch(c, n, ps) ==
    /\ condition' = c
    /\ max_studies' = n
    /\ page_size' = ps
    /\ all_records' = <<>>
    /\ next_page_token' = JNull
    /\ fpc' = "while"
    /\ sent' = <<>>
    /\ got' = <<>>
    /\ delays' = 0

\* Mutant of Params: the cursor never sent.
ParamsOmitsToken ==
    ("query.term" :> JStr(condition)) @@
    ("pageSize" :> JNum(Min(page_size, max_studies - Len(all_records)))) @@
    ("format" :> JStr("json"))

\* Mutant of Params: pageSize not capped by the remaining budget.
ParamsStalePageSize ==
    ("query.term" :> JStr(condition)) @@ ("pageSize" :> JNum(page_size)) @@
    ("format" :> JStr("json")) @@
    Member("pageToken", IF Truthy(next_page_token) THEN "ok" ELSE "absent",
           next_page_token)

\* Lines 27-33: the query parameters of the next request.
Params ==
    ("query.term" :> JStr(condition)) @@
    ("pageSize" :> JNum(Min(page_size, max_studies - Len(all_records)))) @@
    ("format" :> JStr("json")) @@
    Member("pageToken", IF Truthy(next_page_token) THEN "ok" ELSE "absent",
           next_page_token)

\* Mutant of LoopTest: a budget of n lets the loop run with n records.
LoopTestInclusive == Len(all_records) <= max_studies

\* Line 26: `while len(all_records) < max_studies`.
LoopTest == Len(all_records) < max_studies

\* Lines 26-35: the loop test holds and the next page is requested.
FetchRequest ==
    /\ Top = "fetch"
    /\ fpc = "while"
    /\ LoopTest
    /\ sent' = Append(sent, Params)
    /\ stats' = [stats EXCEPT !.requests = @ + 1]
    /\ fpc' = "get"
    /\ UNCHANGED <<stack, line, disease_input, condition, max_studies, page_size,
                   all_records, next_page_token, got, delays, ckey, cache, now,
                   outcome, fetched, prior>>

\* Lines 45-62 over a whole page: the records appended for the entries of
\* `studies` in order, or the first exception raised.
RECURSIVE ExtractAll(_)
ExtractAll(studies) ==
    IF studies = <<>> THEN [t |-> "rows", v |-> <<>>]
    ELSE LET first == ExtractRecord(Head(studies))
             rest == ExtractAll(Tail(studies))
         IN  IF IsRaised(first) THEN first
             ELSE IF IsRaised(rest) THEN rest
             ELSE [t |-> "rows", v |-> <<first.v>> \o rest.v]

\* `for s in studies`: the entries iterated.  A list yields its elements, a
\* dict its keys (strings), None or a number is not iterable.
Iterate(studies) ==
    IF IsRaised(studies) THEN studies
    ELSE CASE studies.t = "list" -> studies
           [] studies.t = "obj" ->
                IF DOMAIN studies.v = {} THEN JList(<<>>) ELSE Raised("AttributeError")
           [] studies.t \in {"null", "num"} -> Raised("TypeError")

\* len(studies) == 0, line 65.
LenIsZero(studies) ==
    CASE studies.t = "list" -> Len(studies.v) = 0
      [] studies.t = "obj" -> DOMAIN studies.v = {}

\* Mutants of BreakTest: one of the two stop conditions left out.
BreakTestCursorOnly(token, studies) == ~Truthy(token)
BreakTestStudiesOnly(token, studies) == LenIsZero(studies)

\* Line 65: `not next_page_token or len(studies) == 0`.
BreakTest(token, studies) == ~Truthy(token) \/ LenIsZero(studies)

\* Mutant of HandleResponse: the status test of line 38 left out.
HandleResponseNoStatusCheck(resp) ==
    IF resp.kind = "transport" THEN Uncaught("ConnectionError", <<>>)
    ELSE IF resp.body.t = "badjson" THEN Uncaught("JSONDecodeError", <<>>)
    ELSE LET data == resp.body
             studies == Get(data, "studies", JList(<<>>))
             token == Get(data, "nextPageToken", JNull)
             items == Iterate(studies)
             rows == IF IsRaised(items) THEN items ELSE ExtractAll(items.v)
         IN  IF IsRaised(studies) THEN Uncaught(studies.v, <<>>)
             ELSE IF IsRaised(rows) THEN Uncaught(rows.v, <<>>)
             ELSE [kind |-> "page", rows |-> rows.v, token |-> token,
                   stop |-> BreakTest(token, studies)]

\* Mutant of HandleResponse: a failed request counts as an empty page and
\* the loop goes on with the cursor it had.
HandleResponseRetries(resp) ==
    IF \/ resp.kind = "transport"
       \/ resp.status # 200
       \/ resp.body.t = "badjson"
    THEN [kind |-> "page", rows |-> <<>>, token |-> next_page_token, stop |-> FALSE]
    ELSE LET data == resp.body
             studies == Get(data, "studies", JList(<<>>))
             token == Get(data, "nextPageToken", JNull)
             items == Iterate(studies)
             rows == IF IsRaised(items) THEN items ELSE ExtractAll(items.v)
         IN  IF IsRaised(studies) THEN Uncaught(studies.v, <<>>)
             ELSE IF IsRaised(rows) THEN Uncaught(rows.v, <<>>)
             ELSE [kind |-> "page", rows |-> rows.v, token |-> token,
                   stop |-> BreakTest(token, studies)]

\* Lines 35-66 on one response: the exception raised (requests.get, the
\* status test, response.json(), the iteration or the extraction), or the
\* page: [kind |-> "page", rows, token, stop].
HandleResponse(resp) ==
    IF resp.kind = "transport" THEN Uncaught("ConnectionError", <<>>)
    ELSE IF resp.status # 200 THEN Uncaught("Exception", <<resp.status>>)
    ELSE IF resp.body.t = "badjson" THEN Uncaught("JSONDecodeError", <<>>)
    ELSE LET data == resp.body
             studies == Get(data, "studies", JList(<<>>))
             token == Get(data, "nextPageToken", JNull)
             items == Iterate(studies)
             rows == IF IsRaised(items) THEN items ELSE ExtractAll(items.v)
         IN  IF IsRaised(studies) THEN Uncaught(studies.v, <<>>)
             ELSE IF IsRaised(rows) THEN Uncaught(rows.v, <<>>)
             ELSE [kind |-> "page", rows |-> rows.v, token |-> token,
                   stop |-> BreakTest(token, studies)]

\* Mutant of Accumulate: the page's records put in front.
AccumulateFront(records, rows) == rows \o records

\* Line 53 over a page: the page's records go after the records so far.
Accumulate(records, rows) == records \o rows

\* Mutant of CacheAfterFailure: the records gathered before the failure are
\* stored under the key of the failed call.
CacheAfterFailureKeepsPartial ==
    IF Len(stack) >= 2 /\ stack[Len(stack) - 1] = "cached"
    THEN [cache EXCEPT ![ckey] = Entry(all_records, now)]
    ELSE cache

\* The store of fetch_trials_cached after fetch_trials raised through it:
\* the decorator stores a value only when the function returns one.
CacheAfterFailure == cache

\* Lines 35-69: the response to the request in flight arrives.  An exception
\* meets no handler in fetch_trials, fetch_trials_cached or the page script:
\* it unwinds the whole stack (and ends the script run when one is running).
\* Otherwise the page's records are appended and the cursor captured; the
\* loop breaks (line 66) or sleeps and goes back to the loop test.
FetchResponse(resp) ==
    /\ Top = "fetch"
    /\ fpc = "get"
    /\ got' = Append(got, resp)
    /\ LET h == HandleResponse(resp)
       IN  IF h.kind = "raise"
           THEN /\ stack' = <<>>
                /\ line' = 0
                /\ fpc' = "raised"
                /\ outcome' = [h EXCEPT !.via = stack[1]]
                /\ cache' = CacheAfterFailure
                /\ UNCHANGED <<all_records, next_page_token, delays>>
           ELSE /\ all_records' = Accumulate(all_records, h.rows)
                /\ next_page_token' = h.token
                /\ fpc' = IF h.stop THEN "return" ELSE "while"
                /\ delays' = IF h.stop THEN delays ELSE delays + 1
                /\ UNCHANGED <<stack, line, outcome, cache>>
    /\ UNCHANGED <<disease_input, condition, max_studies, page_size, sent, ckey,
                   now, stats, fetched, prior>>

\* Line 71, reached by the loop test failing or by the break: the table goes
\* to the caller.  Returning into fetch_trials_cached stores the table under
\* the call's key and passes it on to that caller; returning to line 78
\* moves the script to line 83; the script's call at line 83 ends the
\* modelled part of the run with df bound.
FetchReturn ==
    /\ Top = "fetch"
    /\ \/ fpc = "return"
       \/ fpc = "while" /\ ~LoopTest
    /\ LET table == Slice(all_records, max_studies)
           below == SubSeq(stack, 1, Len(stack) - 1)
       IN  /\ fpc' = "returned"
           /\ IF below = <<"script">>
              THEN /\ stack' = below
                   /\ line' = 83
                   /\ UNCHANGED <<cache, fetched, outcome>>
              ELSE /\ stack' = <<>>
                   /\ line' = 0
                   /\ outcome' = Returned(stack[1], table)
                   /\ IF below = <<>>
                      THEN UNCHANGED <<cache, fetched>>
                      ELSE /\ cache' = [cache EXCEPT ![ckey] = Entry(table, now)]
                           /\ fetched' = [fetched EXCEPT ![ckey] = Entry(table, now)]
    /\ UNCHANGED <<disease_input, condition, max_studies, page_size, all_records,
                   next_page_token, sent, got, delays, ckey, now, stats, prior>>

(***************************************************************************)
(* Direct calls of fetch_trials.                                           *)
(***************************************************************************)
CallFetch(c, n, ps) ==
    /\ stack = <<>>
    /\ stack' = <<"fetch">>
    /\ EnterFetch(c, n, ps)
    /\ outcome' = NoOutcome
    /\ stats' = [fetches |-> 1, requests |-> 0]
    /\ prior' = NoEntry
    /\ UNCHANGED <<line, disease_input, ckey, cache, now, fetched>>

(***************************************************************************)
(* fetch_trials_cached, lines 80-83: st.cache_data(ttl=3600) memoizes the  *)
(* function by its arguments.  An entry is served while the clock is       *)
(* before its store time plus the TTL.                                     *)
(***************************************************************************)
\* Mutants of Fresh: no expiry; no memoization.
FreshForever(e) == e.present
FreshNever(e) == FALSE

\* ttl=3600: an entry is served while less than TTL seconds old.
Fresh(e) == e.present /\ now < e.at + TTL

\* Mutant of Lookup: the entry keyed by the condition alone.
LookupIgnoringBudget(c, n) == cache[Key(c, UiMaxStudies)]

\* The entry stored for the arguments (condition, max_studies).
Lookup(c, n) == cache[Key(c, n)]

\* fetch_trials_cached(c, n) called from the frame `caller` ("script" at
\* line 83, "" for a direct call): a fresh entry is returned at once, else
\* fetch_trials(c, max_studies=n) runs (line 82).
CachedCall(c, n, caller) ==
    LET e == Lookup(c, n)
        via == IF caller = "script" THEN "script" ELSE "cached"
    IN  /\ ckey' = Key(c, n)
        /\ IF Fresh(e)
           THEN /\ stack' = <<>>
                /\ line' = 0
                /\ outcome' = Returned(via, e.table)
                /\ stats' = IF caller = "script" THEN stats
                            ELSE [fetches |-> 0, requests |-> 0]
                /\ UNCHANGED fetchVars
           ELSE /\ stack' = (IF caller = "script" THEN <<"script">> ELSE <<>>)
                            \o <<"cached", "fetch">>
                /\ EnterFetch(c, n, DefaultPageSize)
                /\ outcome' = NoOutcome
                /\ stats' = IF caller = "script"
                            THEN [stats EXCEPT !.fetches = @ + 1]
                            ELSE [fetches |-> 1, requests |-> 0]
                /\ UNCHANGED line

\* A direct call of fetch_trials_cached(c, n).
CallCached(c, n) ==
    /\ stack = <<>>
    /\ CachedCall(c, n, "")
    /\ prior' = fetched[Key(c, n)]
    /\ UNCHANGED <<disease_input, cache, now, fetched>>

(***************************************************************************)
(* The page script, lines 9 and 76-83.  Each user interaction re-runs it   *)
(* from the top.  What follows line 83 (filters, metrics, charts) is the   *)
(* presentation layer and is not modelled: a run that reaches line 85 ends *)
(* here with df bound.                                                     *)
(***************************************************************************)
\* Line 9: the run starts with the text the widget holds.
ScriptStart(input) ==
    /\ stack = <<>>
    /\ stack' = <<"script">>
    /\ line' = 76
    /\ disease_input' = input
    /\ outcome' = NoOutcome
    /\ stats' = [fetches |-> 0, requests |-> 0]
    /\ prior' = fetched[Key(input, UiMaxStudies)]
    /\ UNCHANGED <<fetchVars, ckey, cache, now, fetched>>

\* Lines 76-78: with a non-empty input, fetch_trials is called directly.
ScriptLine76 ==
    /\ Top = "script"
    /\ line = 76
    /\ IF disease_input # ""
       THEN /\ stack' = <<"script", "fetch">>
            /\ line' = 78
            /\ EnterFetch(disease_input, UiMaxStudies, DefaultPageSize)
            /\ stats' = [stats EXCEPT !.fetches = @ + 1]
       ELSE /\ line' = 83
            /\ UNCHANGED <<stack, fetchVars, stats>>
    /\ UNCHANGED <<disease_input, ckey, cache, now, outcome, fetched, prior>>

\* Line 83: df = fetch_trials_cached(disease_input, max_studies=1000).
ScriptLine83 ==
    /\ Top = "script"
    /\ line = 83
    /\ CachedCall(disease_input, UiMaxStudies, "script")
    /\ UNCHANGED <<disease_input, cache, now, fetched, prior>>

\* The wall clock advances.
Tick ==
    /\ now < MaxTicks * TickStep
    /\ now' = now + TickStep
    /\ UNCHANGED <<stack, line, disease_input, fetchVars, ckey, cache, outcome,
                   stats, fetched, prior>>

SmallStudies == {MkStudy("A", AllOk), MkStudy("B", NoDesign)}
Statuses == {200, 404, 500}

\* The page sizes a caller passes: line 12 accepts any integer, also one
\* below 1, and line 29 sends what min() makes of it.
PageSizes == {0, 1, MaxPageSize}

Next ==
    \/ \E n \in (0 - 1)..MaxBudget, ps \in PageSizes : CallFetch("ALS", n, ps)
    \/ FetchRequest
    \/ \E resp \in Responses(SmallStudies, MaxPageLen, Statuses, TokenChoices) :
          FetchResponse(resp)
    \/ FetchReturn

Spec == Init /\ [][Next]_vars

\* The page script and direct calls of the cache wrapper, with a registry
\* that serves at most one study per page and lets a fetch make at most
\* MaxUiPages requests (the last of them is answered without a cursor).
UiStudies == {MkStudy("A", AllOk)}
UiResponses ==
    {TransportFailure, Http(500, JNull)}
    \cup {Http(200, Page(q, tk[1], tk[2])) :
             q \in SeqsUpTo(UiStudies, 1), tk \in {<<"absent", "">>, <<"ok", "X">>}}

\* A response of that registry.
UiFetchResponse(resp) ==
    /\ (IsPage(resp) /\ HasCursor(resp)) => Len(sent) < MaxUiPages
    /\ FetchResponse(resp)

NextUI ==
    \/ \E input \in Conditions : ScriptStart(input)
    \/ ScriptLine76
    \/ ScriptLine83
    \/ \E n \in UiBudgets : CallCached("ALS", n)
    \/ FetchRequest
    \/ \E resp \in UiResponses : UiFetchResponse(resp)
    \/ FetchReturn
    \/ Tick

SpecUI == Init /\ [][NextUI]_vars

\* Fetches of one page holding one study entry, over every study shape.
NextExtract ==
    \/ CallFetch("ALS", 1, 1)
    \/ FetchRequest
    \/ \E s \in AllStudies : FetchResponse(Http(200, Page(<<s>>, "absent", "")))
    \/ FetchReturn

SpecExtract == Init /\ [][NextExtract]_vars

PageSizeAsked(i) == sent[i]["pageSize"].v

\* The records of the pages received, page after page, each page in its order.
RECURSIVE RecordsOfPages(_)
RecordsOfPages(pages) ==
    IF pages = <<>> THEN <<>>
    ELSE LET q == StudiesOf(Head(pages))
         IN  [i \in 1..Len(q) |-> ExtractRecord(q[i]).v] \o RecordsOfPages(Tail(pages))

FirstN(q, n) == [i \in 1..Min(Len(q), Max(n, 0)) |-> q[i]]

FetchSucceeded ==
    stack = <<>> /\ fpc = "returned" /\ outcome.kind = "return" /\ outcome.via = "fetch"
FetchFailed ==
    stack = <<>> /\ fpc = "raised" /\ outcome.kind = "raise" /\ outcome.via = "fetch"

\* C1: a successful fetch with max_studies >= 0 returns a table of at most
\* max_studies rows, also when a page delivered more studies than the
\* pageSize asked for.
C1_LengthWithinBudget ==
    (FetchSucceeded /\ max_studies >= 0) => Len(outcome.rows) <= max_studies

\* C1 witness: a fetch succeeded after a page over-delivered past the budget.
C1_Witness ==
    /\ FetchSucceeded
    /\ max_studies >= 1
    /\ Len(all_records) > max_studies
    /\ Len(outcome.rows) = max_studies
    /\ \E i \in 1..Len(got) : Len(StudiesOf(got[i])) > PageSizeAsked(i)

\* C2: the table of a successful fetch is the concatenation, in request
\* order, of the records of every page requested (the last, cursor-less page
\* included), cut to the first max_studies records.
C2_ConcatenationInOrder ==
    FetchSucceeded => outcome.rows = FirstN(RecordsOfPages(got), max_studies)

\* C2 witness: two pages with different records, the last one without a
\* cursor and not empty, and a truncation.
C2_Witness ==
    /\ FetchSucceeded
    /\ Len(got) = 2
    /\ ~HasCursor(got[2])
    /\ StudiesOf(got[2]) # <<>>
    /\ Len(all_records) > max_studies
    /\ outcome.rows[1] # outcome.rows[2]

\* C3: a non-200 response on any page ends the fetch with the request error
\* carrying the status code; no table, and none of the records of earlier
\* pages, reaches the caller.
C3_Non200Aborts ==
    \A i \in 1..Len(got) :
        (got[i].kind = "http" /\ got[i].status # 200) =>
            /\ i = Len(got)
            /\ FetchFailed
            /\ outcome.exc = "Exception"
            /\ outcome.args = <<got[i].status>>
            /\ outcome.rows = <<>>

\* C3 witness: a non-200 response after a page that delivered records.
C3_Witness ==
    /\ Len(got) = 2
    /\ got[2].kind = "http" /\ got[2].status = 404
    /\ all_records # <<>>
    /\ FetchFailed

\* C6: a first page with studies and no nextPageToken means exactly one
\* request, whatever max_studies and page_size are.
C6_SinglePageSingleRequest ==
    (/\ Len(got) >= 1
     /\ IsPage(got[1])
     /\ StudiesOf(got[1]) # <<>>
     /\ NoCursorMember(got[1])) => (Len(sent) = 1 /\ Len(got) = 1 /\ fpc # "while")

\* C6 witness: budget 3, one page of 3 studies without a cursor, 3 rows.
C6_Witness ==
    /\ FetchSucceeded
    /\ max_studies = 3
    /\ Len(got) = 1
    /\ NoCursorMember(got[1])
    /\ Len(outcome.rows) = 3
    /\ Len(sent) = 1

\* A second C6 witness shape: fewer studies than the budget, so only the
\* missing cursor ends the loop.
C6_WitnessUnderBudget ==
    /\ FetchSucceeded
    /\ Len(got) = 1
    /\ NoCursorMember(got[1])
    /\ Len(outcome.rows) = 1
    /\ max_studies = 3

\* C7: a page with zero studies ends pagination, cursor or not, budget
\* reached or not: it is the last page requested and the fetch returns the
\* records accumulated so far.
C7_EmptyPageStops ==
    \A i \in 1..Len(got) :
        (IsPage(got[i]) /\ StudiesOf(got[i]) = <<>>) =>
            /\ i = Len(got)
            /\ Len(sent) = i
            /\ fpc \in {"return", "returned"}
            /\ fpc = "returned" => (FetchSucceeded /\ outcome.rows = all_records)

\* C7 witness: an empty page that carried a cursor, after a page with
\* records, with budget left.
C7_Witness ==
    /\ FetchSucceeded
    /\ Len(got) = 2
    /\ StudiesOf(got[2]) = <<>>
    /\ HasCursor(got[2])
    /\ all_records # <<>>
    /\ Len(all_records) < max_studies

(***************************************************************************)
(* The cache wrapper and the page script, under SpecUI.                    *)
(***************************************************************************)
CachedDone == stack = <<>> /\ outcome.kind = "return" /\ outcome.via = "cached"
ScriptDone == stack = <<>> /\ outcome.kind = "return" /\ outcome.via = "script"
WithinTTL(e) == e.present /\ now < e.at + TTL

\* C4: a call of fetch_trials_cached(c, n) made while an earlier call's table
\* for the same (c, n) is within its TTL runs no fetch, sends no request and
\* returns that table; a call with a key never fetched (the same c with a
\* different n included) runs a fetch.
C4_OneFetchPerKeyWithinTTL ==
    CachedDone =>
        /\ WithinTTL(prior) =>
              (stats.fetches = 0 /\ stats.requests = 0 /\ outcome.rows = prior.table)
        /\ ~prior.present => stats.fetches = 1

\* C4 witness: a second call for ("ALS", 2) served from the first call's
\* table, while the same condition with budget 1000 was fetched separately
\* and holds another table.
C4_Witness ==
    /\ CachedDone
    /\ ckey = Key("ALS", 2)
    /\ WithinTTL(prior)
    /\ stats.fetches = 0
    /\ outcome.rows = prior.table
    /\ WithinTTL(fetched[Key("ALS", UiMaxStudies)])
    /\ fetched[Key("ALS", UiMaxStudies)].table # prior.table

\* C5: a run of the page script whose (disease_input, 1000) table is within
\* its TTL, with a non-empty disease_input, sends no request to the registry.
C5_RerunSendsNoRequest ==
    (ScriptDone /\ disease_input # "" /\ WithinTTL(prior)) => stats.requests = 0

\* The same holds of the code when disease_input is empty (line 76 skips the
\* direct call), and the table of every run comes from the cache wrapper.
C5_EmptyInputRerunSendsNoRequest ==
    (ScriptDone /\ disease_input = "" /\ WithinTTL(prior)) =>
        (stats.requests = 0 /\ outcome.rows = prior.table)

\* C10: no exception raised by a fetch leaves the page script unhandled.
C10_ScriptSurvivesFetchFailure ==
    ~(stack = <<>> /\ outcome.kind = "raise" /\ outcome.via = "script")

(***************************************************************************)
(* Field extraction, under SpecExtract: the fetch of one page holding one  *)
(* study entry.  The expected record is read off the entry by walking the  *)
(* key paths, independently of ExtractRecord.                              *)
(***************************************************************************)
Missing == [t |-> "missing"]

\* The value at the key path below v, Missing when a key of the path is not
\* there; Blocked when the path runs into a value that is not an object.
RECURSIVE Walk(_, _)
Walk(v, path) ==
    IF path = <<>> THEN v
    ELSE IF v.t = "missing" THEN v
    ELSE IF v.t # "obj" THEN [t |-> "blocked"]
    ELSE IF Head(path) \in DOMAIN v.v THEN Walk(v.v[Head(path)], Tail(path))
    ELSE Missing

IntermediatePaths ==
    {<<"protocolSection">>,
     <<"protocolSection", "identificationModule">>,
     <<"protocolSection", "statusModule">>,
     <<"protocolSection", "statusModule", "startDateStruct">>,
     <<"protocolSection", "statusModule", "completionDateStruct">>,
     <<"protocolSection", "sponsorCollaboratorsModule">>,
     <<"protocolSection", "sponsorCollaboratorsModule", "leadSponsor">>,
     <<"protocolSection", "designModule">>,
     <<"protocolSection", "designModule", "phaseList">>,
     <<"protocolSection", "designModule", "enrollmentInfo">>}
PhasesPath == <<"protocolSection", "designModule", "phaseList", "phases">>

\* Every intermediate object is an object or absent, and the phase list is
\* absent or a non-empty list.
AbsentOrWellFormed(s) ==
    /\ \A p \in IntermediatePaths : Walk(s, p).t \in {"obj", "missing"}
    /\ \/ Walk(s, PhasesPath).t = "missing"
       \/ Walk(s, PhasesPath).t = "list" /\ Walk(s, PhasesPath).v # <<>>

\* Something on the path is there but malformed: a null where an object or
\* the phase list is expected, or an empty phase list.
Malformed(s) == ~AbsentOrWellFormed(s)

\* The leaf at a path, null when the path does not lead to a value.
Leaf(s, path) ==
    LET w == Walk(s, path) IN IF w.t \in {"missing", "blocked"} THEN JNull ELSE w

FirstPhase(s) ==
    LET w == Walk(s, PhasesPath)
    IN  IF w.t = "list" /\ w.v # <<>> THEN w.v[1] ELSE JNull

ExpectedRecord(s) ==
    [NCT_ID |-> Leaf(s, <<"protocolSection", "identificationModule", "nctId">>),
     Title |-> Leaf(s, <<"protocolSection", "identificationModule", "briefTitle">>),
     Status |-> Leaf(s, <<"protocolSection", "statusModule", "overallStatus">>),
     Phase |-> FirstPhase(s),
     Sponsor |-> Leaf(s, <<"protocolSection", "sponsorCollaboratorsModule",
                           "leadSponsor", "name">>),
     Enrollment |-> Leaf(s, <<"protocolSection", "designModule", "enrollmentInfo",
                              "value">>),
     StartDate |-> Leaf(s, <<"protocolSection", "statusModule", "startDateStruct",
                             "date">>),
     CompletionDate |-> Leaf(s, <<"protocolSection", "statusModule",
                                  "completionDateStruct", "date">>)]

\* The fetch has ended, by a table or by an exception, on a page of one study.
OneStudyFetchEnded ==
    /\ stack = <<>>
    /\ fpc \in {"returned", "raised"}
    /\ Len(got) = 1
    /\ IsPage(got[1])
    /\ Len(StudiesOf(got[1])) = 1

TheStudy == StudiesOf(got[1])[1]

\* C8: when intermediate objects of the extraction path are absent (and what
\* is present is well formed), the fetch does not fail, the fields under an
\* absent object are null and the other fields carry the entry's values.
C8_AbsentObjectsGiveNulls ==
    (OneStudyFetchEnded /\ AbsentOrWellFormed(TheStudy)) =>
        (FetchSucceeded /\ outcome.rows = <<ExpectedRecord(TheStudy)>>)

\* C8 witness: an entry without designModule gave Phase and Enrollment null
\* and kept the other fields.
C8_Witness ==
    /\ OneStudyFetchEnded
    /\ FetchSucceeded
    /\ Walk(TheStudy, <<"protocolSection", "designModule">>) = Missing
    /\ outcome.rows[1].Phase = JNull
    /\ outcome.rows[1].Enrollment = JNull
    /\ outcome.rows[1].NCT_ID = JStr("A")
    /\ outcome.rows[1].Sponsor = JStr("Acme")
    /\ outcome.rows[1].StartDate = JStr("2020-01")

\* C9: an entry with a malformed nested field (a null in place of a nested
\* object, an empty phase list) does not make the fetch fail, and the
\* affected fields are null.
C9_MalformedFieldsGiveNulls ==
    (OneStudyFetchEnded /\ Malformed(TheStudy)) =>
        (FetchSucceeded /\ outcome.rows = <<ExpectedRecord(TheStudy)>>)

(***************************************************************************)
(* Delays, cursors and page sizes of a fetch, under Spec.                  *)
(***************************************************************************)
\* C11: a delay happens only when the fetch goes on to another request: a
\* successful fetch that issued k >= 1 requests made exactly k - 1 delays,
\* also when a page that carries a cursor fills the budget exactly.
C11_DelaysBetweenRequestsOnly ==
    (FetchSucceeded /\ Len(sent) >= 1) => delays = Len(sent) - 1

\* What the code does hold to: a delay after every page that had studies and
\* a cursor, so k - 1 delays, or k when the last page was such a page.
C11_DelayAfterEveryContinuingPage ==
    (FetchSucceeded /\ Len(sent) >= 1) =>
        /\ delays = Cardinality({i \in 1..Len(got) :
                                   HasCursor(got[i]) /\ StudiesOf(got[i]) # <<>>})
        /\ delays \in {Len(sent) - 1, Len(sent)}

\* The spec's scenario shape: two pages, the second without a cursor and
\* over-delivering, gives 2 requests and 1 delay.
C11_ScenarioTwoPagesOneDelay ==
    /\ FetchSucceeded
    /\ Len(sent) = 2
    /\ ~HasCursor(got[2])
    /\ Len(all_records) > max_studies
    /\ delays = 1

\* The cursor a request carried, JNull when it carried none.
TokenSent(i) ==
    IF "pageToken" \in DOMAIN sent[i] THEN sent[i]["pageToken"] ELSE JNull

\* C12: the first request carries no pageToken; every later request carries
\* the nextPageToken of the response just before it.
C12_CursorFromPrecedingResponse ==
    \A i \in 1..Len(sent) :
        IF i = 1 THEN "pageToken" \notin DOMAIN sent[i]
        ELSE /\ "pageToken" \in DOMAIN sent[i]
             /\ IsPage(got[i - 1])
             /\ HasCursor(got[i - 1])
             /\ sent[i]["pageToken"] = got[i - 1].body.v["nextPageToken"]

\* C12 witness: three requests, the registry handing out two different
\* cursors; the third request carries the second cursor, not the first.
C12_Witness ==
    /\ Len(sent) = 3
    /\ TokenSent(1) = JNull
    /\ TokenSent(2) = JStr("X")
    /\ TokenSent(3) = JStr("Y")

\* The registry never put more studies in a page than the pageSize asked for.
NoOverDelivery ==
    \A i \in 1..Len(got) :
        IsPage(got[i]) => Len(StudiesOf(got[i])) <= PageSizeAsked(i)

\* Every request asks for min(page_size, max_studies - records so far).
PageSizeIsMin ==
    \A i \in 1..Len(sent) :
        PageSizeAsked(i) =
            Min(page_size, max_studies - Len(RecordsOfPages(SubSeq(got, 1, i - 1))))

\* Every request asks for at least one study and at most page_size.  Fails
\* for page_size <= 0: the request asks for page_size itself.
PageSizeInRange ==
    \A i \in 1..Len(sent) : PageSizeAsked(i) \in 1..page_size

\* Without over-delivery the records never exceed max_studies and line 71
\* cuts nothing off.  Fails for max_studies < 0: no record is more than that.
NothingBeyondBudget ==
    NoOverDelivery =>
        /\ Len(all_records) <= max_studies
        /\ FetchSucceeded => outcome.rows = all_records

\* C13 as stated: every request asks for min(page_size, max_studies - records
\* so far), which lies in 1..page_size; and when the registry never
\* over-delivers, the records never exceed max_studies and line 71 cuts
\* nothing off.
C13_PageSizeBetweenOneAndPageSize ==
    /\ PageSizeIsMin
    /\ PageSizeInRange
    /\ NothingBeyondBudget

\* C13 corrected: every request asks for min(page_size, max_studies - records
\* so far); that lies in 1..page_size when page_size >= 1 and is page_size
\* itself when page_size <= 0; and when the registry never over-delivers,
\* line 71 cuts nothing off and, for max_studies >= 0, the records never
\* exceed max_studies.
C13_PageSizeIsCappedByBudget ==
    /\ PageSizeIsMin
    /\ \A i \in 1..Len(sent) :
          /\ page_size >= 1 => PageSizeAsked(i) \in 1..page_size
          /\ page_size <= 0 => PageSizeAsked(i) = page_size
    /\ NoOverDelivery =>
          /\ max_studies >= 0 => Len(all_records) <= max_studies
          /\ FetchSucceeded => outcome.rows = all_records

\* C13 witness: a first request capped by page_size, a second one capped by
\* the budget left, no over-delivery, the budget filled exactly.
C13_Witness ==
    /\ FetchSucceeded
    /\ Len(sent) = 2
    /\ PageSizeAsked(1) = page_size
    /\ PageSizeAsked(2) < page_size
    /\ NoOverDelivery
    /\ Len(all_records) = max_studies

\* A request went out for a page_size below 1: it asks for page_size itself.
C13_WitnessNonPositivePageSize ==
    /\ page_size <= 0
    /\ Len(sent) >= 1
    /\ PageSizeAsked(1) = page_size
    /\ max_studies >= 1

(***************************************************************************)
(* Failures, termination and empty budgets, under Spec.                    *)
(***************************************************************************)
\* A response that makes the request fail: no connection, a status other
\* than 200, or a body that is not JSON.
RequestFailed(resp) ==
    \/ resp.kind = "transport"
    \/ resp.kind = "http" /\ resp.status # 200
    \/ resp.kind = "http" /\ resp.status = 200 /\ resp.body.t = "badjson"

\* C14: a failed request is the last request of its fetch, and the fetch
\* ends in an error without a table.
C14_NoRetryAfterFailure ==
    \A i \in 1..Len(got) :
        RequestFailed(got[i]) =>
            /\ i = Len(got)
            /\ Len(sent) = i
            /\ FetchFailed
            /\ outcome.rows = <<>>
            /\ outcome.exc = (IF got[i].kind = "transport" THEN "ConnectionError"
                              ELSE IF got[i].status # 200 THEN "Exception"
                              ELSE "JSONDecodeError")

\* C14 witness: the second request failed at the transport, after a page
\* that delivered records.
C14_Witness ==
    /\ Len(got) = 2
    /\ got[2].kind = "transport"
    /\ all_records # <<>>
    /\ FetchFailed
    /\ Len(sent) = 2

\* The same for a body that does not parse.
C14_WitnessBadBody ==
    /\ Len(got) = 2
    /\ got[2].kind = "http" /\ got[2].body.t = "badjson"
    /\ FetchFailed

\* C16: a fetch issues at most max(1, max_studies) requests, because every
\* page after which it went on delivered at least one record.
C16_RequestsBoundedByBudget ==
    /\ Len(sent) <= Max(1, max_studies)
    /\ \A i \in 1..Len(got) :
          i < Len(sent) => (IsPage(got[i]) /\ Len(StudiesOf(got[i])) >= 1)

\* C16 witness: the registry gave a cursor on every page, one study a page;
\* the fetch stopped after max_studies = 3 requests.
C16_Witness ==
    /\ FetchSucceeded
    /\ max_studies = 3
    /\ Len(sent) = 3
    /\ \A i \in 1..3 : HasCursor(got[i]) /\ Len(StudiesOf(got[i])) = 1

\* Every request is answered or fails, and the interpreter keeps running.
SpecAnswered ==
    /\ Spec
    /\ WF_vars(FetchRequest)
    /\ WF_vars(\E resp \in Responses(SmallStudies, MaxPageLen, Statuses, TokenChoices) :
                  FetchResponse(resp))
    /\ WF_vars(FetchReturn)

\* Under SpecAnswered every fetch returns or fails.
C16_FetchEnds == (Top = "fetch") ~> (stack = <<>>)

\* C18: with max_studies <= 0 the fetch sends no request, makes no delay and
\* returns an empty table.
C18_NonPositiveBudgetFetchesNothing ==
    (max_studies <= 0 /\ fpc # "none") =>
        /\ sent = <<>>
        /\ got = <<>>
        /\ delays = 0
        /\ fpc \in {"while", "returned"}
        /\ fpc = "returned" => (FetchSucceeded /\ outcome.rows = <<>>)

\* C18 witnesses: a fetch with budget 0, and one with a negative budget.
C18_Witness ==
    FetchSucceeded /\ max_studies = 0 /\ sent = <<>> /\ outcome.rows = <<>>
C18_WitnessNegative ==
    FetchSucceeded /\ max_studies < 0 /\ sent = <<>> /\ outcome.rows = <<>>

(***************************************************************************)
(* Expiry and failures at the cache wrapper, under SpecUI.                 *)
(***************************************************************************)
\* A step in which fetch_trials_cached is called: directly, or by line 83.
\* Its arguments are ckey'.
CachedCallStep ==
    /\ now' = now
    /\ \/ stack = <<>> /\ stack' \in {<<>>, <<"cached", "fetch">>}
       \/ stack = <<"script">> /\ line = 83

\* The call is answered from the store: no fetch_trials frame is entered.
ServedFromStore == stack' = <<>> /\ outcome'.kind = "return"

\* C15: a table served from the store was fetched at most one TTL earlier,
\* and a call for a key whose entry's TTL has elapsed runs a new fetch.
C15_NoExpiredEntryServed ==
    [][CachedCallStep =>
          LET e == fetched[ckey']
          IN  /\ ServedFromStore =>
                    (e.present /\ outcome'.rows = e.table /\ now - e.at <= TTL)
              /\ (e.present /\ now >= e.at + TTL) =>
                    (stack' # <<>> /\ stack'[Len(stack')] = "fetch"
                       /\ fpc' = "while" /\ sent' = <<>>)]_vars

\* C15 witness: a call found its key's entry expired, fetched anew and stored
\* the new table.
C15_Witness ==
    /\ CachedDone
    /\ prior.present
    /\ now >= prior.at + TTL
    /\ stats.fetches = 1
    /\ stats.requests >= 1
    /\ fetched[ckey].at >= prior.at + TTL

FailedThroughCache ==
    stack = <<>> /\ outcome.kind = "raise" /\ outcome.via = "cached"
FailedInScript ==
    stack = <<>> /\ outcome.kind = "raise" /\ outcome.via = "script"

\* C17: after a fetch failed inside fetch_trials_cached, the store holds for
\* the call's key what it held before (no error, no partial table), no entry
\* of that key can be served, and the next call with that key runs a fetch.
\* A failed run of the page script leaves its key's entry as it was, too.
C17_FailureStoresNothing ==
    /\ [](FailedThroughCache => (cache[ckey] = prior /\ ~WithinTTL(cache[ckey])))
    /\ [](FailedInScript => cache[Key(disease_input, UiMaxStudies)] = prior)
    /\ [][(FailedThroughCache /\ CachedCallStep /\ ckey' = ckey) =>
             (stack' = <<"cached", "fetch">> /\ fpc' = "while" /\ stats'.fetches = 1)]_vars

\* C17 witness: a fetch inside fetch_trials_cached sent a request, the
\* request failed, and the key of the call has no entry.
C17_Witness ==
    /\ FailedThroughCache
    /\ ~cache[ckey].present
    /\ stats.fetches = 1
    /\ Len(sent) >= 1
    /\ RequestFailed(got[Len(got)])

\* The same after an expired entry: the old table stays in the store,
\* expired, and is not replaced.
C17_WitnessExpiredEntryKept ==
    /\ FailedThroughCache
    /\ cache[ckey].present
    /\ cache[ckey] = prior
    /\ now >= cache[ckey].at + TTL
====
